---- MODULE Spec2Model ----
(***************************************************************************)
(* Model of backend/scripts/xlsx_to_json.py: the decode of an .xlsx        *)
(* package (a zip of XML parts) into a mapping sheet name -> records.      *)
(*                                                                         *)
(* Representation.                                                         *)
(*   text      a sequence of one-character strings ("ab" is <<"a","b">>),  *)
(*             so that strip(), lower(), int(), float(), str.replace()     *)
(*             and strftime() are computed character by character;         *)
(*   optional  a sequence of length 0 (None / absent / raised) or 1;       *)
(*   dict      a sequence of <<key, value>> pairs with distinct keys, in   *)
(*             insertion order, as a Python dict;                          *)
(*   XML part  a record with field kind in {"absent","corrupt","ok"}.      *)
(***************************************************************************)
EXTENDS Integers, Sequences, FiniteSets, TLC

VARIABLES pc, fn, arg, ret, zf, handle, readlog, shared_strings, date_style_indexes, refs, pos, sheets, out, err

vars == <<pc, fn, arg, ret, zf, handle, readlog, shared_strings, date_style_indexes, refs, pos, sheets, out, err>>

decodeVars == <<zf, handle, readlog, shared_strings, date_style_indexes, refs, pos, sheets, out, err>>

(***************************************************************************)
(* Text and dict primitives of the language runtime.                       *)
(***************************************************************************)
Whitespace == {" "}

Digits == <<"0", "1", "2", "3", "4", "5", "6", "7", "8", "9">>

IsDigit(c) == \E i \in 1..10 : Digits[i] = c

DigitVal(c) == (CHOOSE i \in 1..10 : Digits[i] = c) - 1

RECURSIVE LStrip(_)
LStrip(t) == IF t # <<>> /\ Head(t) \in Whitespace THEN LStrip(Tail(t)) ELSE t

RECURSIVE RStrip(_)
RStrip(t) == IF t # <<>> /\ t[Len(t)] \in Whitespace THEN RStrip(SubSeq(t, 1, Len(t) - 1)) ELSE t

Strip(t) == RStrip(LStrip(t))

RECURSIVE Join(_)
Join(ts) == IF ts = <<>> THEN <<>> ELSE Head(ts) \o Join(Tail(ts))

RECURSIVE DictIndex(_, _)
DictIndex(d, k) == IF d = <<>> THEN 0 ELSE IF d[Len(d)][1] = k THEN Len(d) ELSE DictIndex(SubSeq(d, 1, Len(d) - 1), k)

DictHas(d, k) == DictIndex(d, k) # 0

DictGet(d, k) == d[DictIndex(d, k)][2]

DictSet(d, k, v) == IF DictHas(d, k) THEN [d EXCEPT ![DictIndex(d, k)] = <<k, v>>] ELSE Append(d, <<k, v>>)

DictKeys(d) == [i \in 1..Len(d) |-> d[i][1]]

RECURSIVE DigitsValue(_)
DigitsValue(t) == IF t = <<>> THEN 0 ELSE 10 * DigitsValue(SubSeq(t, 1, Len(t) - 1)) + DigitVal(t[Len(t)])

AllDigits(t) == \A i \in 1..Len(t) : IsDigit(t[i])

Unsigned(t) == IF t # <<>> /\ Head(t) \in {"-", "+"} THEN Tail(t) ELSE t

IsNegative(t) == t # <<>> /\ Head(t) = "-"

ParseInt(raw) ==
  LET s == Strip(raw)
      u == Unsigned(s)
  IN  IF u = <<>> \/ ~AllDigits(u) THEN <<>>
      ELSE <<IF IsNegative(s) THEN 0 - DigitsValue(u) ELSE DigitsValue(u)>>

DotIndex(t) == IF \E i \in 1..Len(t) : t[i] = "." THEN CHOOSE i \in 1..Len(t) : t[i] = "." /\ \A j \in 1..(i - 1) : t[j] # "." ELSE 0

RECURSIVE Pow10(_)
Pow10(n) == IF n = 0 THEN 1 ELSE 10 * Pow10(n - 1)

ParseFloat(raw) ==
  LET s == Strip(raw)
      u == Unsigned(s)
      k == DotIndex(u)
      w == IF k = 0 THEN u ELSE SubSeq(u, 1, k - 1)
      f == IF k = 0 THEN <<>> ELSE SubSeq(u, k + 1, Len(u))
  IN  IF (w = <<>> /\ f = <<>>) \/ ~AllDigits(w) \/ ~AllDigits(f) THEN <<>>
      ELSE <<[neg |-> IsNegative(s), whole |-> DigitsValue(w), num |-> DigitsValue(f), den |-> Pow10(Len(f))]>>

(***************************************************************************)
(* _text_from_si: the text runs of a string item, concatenated.  A node is *)
(* the sequence of its <t> runs; a run with no text counts as "".          *)
(***************************************************************************)
_text_from_si(node) == Join(node)

_is_builtin_date_numfmt(numfmt_id) == numfmt_id \in {14, 15, 16, 17, 18, 19, 20, 21, 22, 45, 46, 47}

Lower(c) == CASE c = "Y" -> "y" [] c = "M" -> "m" [] c = "D" -> "d" [] c = "H" -> "h" [] c = "S" -> "s" [] c = "E" -> "e" [] c = "G" -> "g" [] OTHER -> c

_looks_like_date_format(code) ==
  LET lowered == [i \in 1..Len(code) |-> Lower(code[i])]
  IN  \E i \in 1..Len(lowered) : lowered[i] \in {"y", "m", "d", "h", "s"}

(***************************************************************************)
(* datetime arithmetic of the runtime (proleptic Gregorian ordinals).      *)
(***************************************************************************)
IsLeap(y) == y % 4 = 0 /\ (y % 100 # 0 \/ y % 400 = 0)

DaysInMonth(y, m) == IF m = 2 THEN (IF IsLeap(y) THEN 29 ELSE 28) ELSE IF m \in {4, 6, 9, 11} THEN 30 ELSE 31

RECURSIVE DaysBeforeMonth(_, _)
DaysBeforeMonth(y, m) == IF m = 1 THEN 0 ELSE DaysBeforeMonth(y, m - 1) + DaysInMonth(y, m - 1)

DaysBeforeYear(y) == (y - 1) * 365 + ((y - 1) \div 4) - ((y - 1) \div 100) + ((y - 1) \div 400)

Ymd2Ord(y, m, d) == DaysBeforeYear(y) + DaysBeforeMonth(y, m) + d

Ord2Ymd(ordinal) ==
  LET n0 == ordinal - 1
      n400 == n0 \div 146097
      r400 == n0 % 146097
      n100 == r400 \div 36524
      r100 == r400 % 36524
      n4 == r100 \div 1461
      r4 == r100 % 1461
      n1 == r4 \div 365
      n == r4 % 365
      year == n400 * 400 + 1 + n100 * 100 + n4 * 4 + n1
      month == CHOOSE m \in 1..12 : DaysBeforeMonth(year, m) <= n /\ n < DaysBeforeMonth(year, m) + DaysInMonth(year, m)
  IN  IF n1 = 4 \/ n100 = 4 THEN <<year - 1, 12, 31>>
      ELSE <<year, month, n - DaysBeforeMonth(year, month) + 1>>

MinOrdinal == Ymd2Ord(1, 1, 1)

MaxOrdinal == Ymd2Ord(9999, 12, 31)

Pad2(n) == <<Digits[(n \div 10) + 1], Digits[(n % 10) + 1]>>

Pad4(n) == Pad2(n \div 100) \o Pad2(n % 100)

(***************************************************************************)
(* _excel_serial_to_iso.  float(value) is taken exactly: the model's       *)
(* serials have at most three decimals, which the timedelta constructor    *)
(* resolves to the exact microsecond.  The result is optional: <<>> stands *)
(* for the ValueError of float() or the OverflowError of the date range.   *)
(***************************************************************************)
RoundHalfEven(a, b) ==
  LET q == a \div b
      r == a % b
  IN  IF 2 * r < b THEN q ELSE IF 2 * r > b THEN q + 1 ELSE IF q % 2 = 0 THEN q ELSE q + 1

Timedelta(f) ==
  LET S == (f.num * 86400) \div f.den
      U == RoundHalfEven(((f.num * 86400) % f.den) * 1000000, f.den)
  IN  IF ~f.neg THEN [days |-> f.whole, seconds |-> S, microseconds |-> U]
      ELSE IF S = 0 /\ U = 0 THEN [days |-> 0 - f.whole, seconds |-> 0, microseconds |-> 0]
      ELSE IF U = 0 THEN [days |-> 0 - f.whole - 1, seconds |-> 86400 - S, microseconds |-> 0]
      ELSE [days |-> 0 - f.whole - 1, seconds |-> 86400 - S - 1, microseconds |-> 1000000 - U]

EpochOrdinal(y, m, d) == Ymd2Ord(y, m, d)

BaseOrdinalDay1900 == EpochOrdinal(1900, 1, 1)

BaseOrdinal == EpochOrdinal(1899, 12, 30)

IsMidnight(td) == td.seconds = 0 /\ td.microseconds = 0

FormatDate(ymd) == Pad4(ymd[1]) \o <<"-">> \o Pad2(ymd[2]) \o <<"-">> \o Pad2(ymd[3])

FormatTime(secs) == Pad2(secs \div 3600) \o <<":">> \o Pad2((secs % 3600) \div 60) \o <<":">> \o Pad2(secs % 60)

_excel_serial_to_iso(value) ==
  LET p == ParseFloat(value)
  IN  IF p = <<>> THEN <<>>
      ELSE LET td == Timedelta(p[1])
               ordinal == BaseOrdinal + td.days
           IN  IF ordinal < MinOrdinal \/ ordinal > MaxOrdinal THEN <<>>
               ELSE IF IsMidnight(td) THEN <<FormatDate(Ord2Ymd(ordinal))>>
               ELSE <<FormatDate(Ord2Ymd(ordinal)) \o <<" ">> \o FormatTime(td.seconds)>>

(***************************************************************************)
(* _cell_value.  A cell is [t, s, is, v]: t the type attribute ("none"     *)
(* when absent), s the style index (a decimal integer, 0 when absent),     *)
(* is the optional inline-string node, v the optional value node, whose    *)
(* text is <<>> when the node has no text.                                 *)
(***************************************************************************)
SharedStringAt(shared_strings_, i) ==
  IF 0 <= i /\ i < Len(shared_strings_) THEN <<shared_strings_[i + 1]>>
  ELSE IF i < 0 /\ 0 - i <= Len(shared_strings_) THEN <<shared_strings_[Len(shared_strings_) + i + 1]>>
  ELSE <<>>

_cell_value(cell, shared_strings_, date_style_indexes_) ==
  IF cell.t = "inlineStr" THEN (IF cell.is = <<>> THEN <<>> ELSE _text_from_si(cell.is[1]))
  ELSE IF cell.v = <<>> \/ cell.v[1] = <<>> THEN <<>>
  ELSE LET raw == cell.v[1]
       IN  IF cell.t = "s"
           THEN LET i == ParseInt(raw)
                IN  IF i = <<>> THEN <<>>
                    ELSE IF SharedStringAt(shared_strings_, i[1]) = <<>> THEN <<>>
                    ELSE SharedStringAt(shared_strings_, i[1])[1]
           ELSE IF cell.s \in date_style_indexes_
           THEN (IF _excel_serial_to_iso(raw) = <<>> THEN raw ELSE _excel_serial_to_iso(raw)[1])
           ELSE raw

(***************************************************************************)
(* Bounded input sets.                                                     *)
(***************************************************************************)
SeqsUpTo(S, n) == UNION {[1..k -> S] : k \in 0..n}

RECURSIVE ToDigits(_)
ToDigits(n) == IF n < 10 THEN <<Digits[n + 1]>> ELSE ToDigits(n \div 10) \o <<Digits[(n % 10) + 1]>>

MaxRawLen == 2

MaxTable == 2

SerialWindow == 3

IndexChars == {"0", "1", "2", "-", "x", " "}

IndexTexts == SeqsUpTo(IndexChars, MaxRawLen)

TableTexts == {<<"p">>, <<"q", " ">>}

Tables == SeqsUpTo(TableTexts, MaxTable)

SerialWholes == {0, 1, 59, 60, 61, 36526, 9999999} \cup ((45000 - SerialWindow)..(45000 + SerialWindow))

SerialFractions == {<<>>, <<".">>, <<".", "0">>, <<".", "5">>, <<".", "2", "5">>, <<".", "1", "2", "5">>, <<".", "7", "5">>, <<".", "9", "9", "9">>, <<".", "0", "0", "1">>}

SerialSigns == {<<>>, <<"-">>}

SerialTexts == {sg \o ToDigits(w) \o f : sg \in SerialSigns, w \in SerialWholes, f \in SerialFractions} \cup {<<"x">>, <<"1", "x">>, <<".">>}

SharedCells == {[t |-> "s", s |-> 0, is |-> <<>>, v |-> v] : v \in {<<>>} \cup {<<raw>> : raw \in IndexTexts}}

DateCells == {[t |-> t, s |-> s, is |-> <<>>, v |-> <<raw>>] : t \in {"none", "n"}, s \in {0, 1}, raw \in SerialTexts}

InlineCells == {[t |-> "inlineStr", s |-> 0, is |-> n, v |-> <<>>] : n \in {<<>>, <<<<>>>>, <<<<<<"a">>, <<" ", "b">>>>>>}}

CellArgs ==
  {[cell |-> c, shared_strings |-> tb, date_style_indexes |-> {}] : c \in SharedCells \cup InlineCells, tb \in Tables}
  \cup {[cell |-> c, shared_strings |-> <<>>, date_style_indexes |-> ds] : c \in DateCells, ds \in {{}, {1}}}

(***************************************************************************)
(* The decode has not started (the state of the pure-function              *)
(* specifications, and the first state of a decode).                       *)
(***************************************************************************)
InvalidArchives == [valid : {FALSE}, why : {"BadZipFile", "FileNotFoundError"}]

NoArchive == [valid |-> FALSE, why |-> "FileNotFoundError"]

Idle ==
  /\ handle = "unopened"
  /\ readlog = <<>>
  /\ shared_strings = <<>>
  /\ date_style_indexes = {}
  /\ refs = <<>>
  /\ pos = 1
  /\ sheets = <<>>
  /\ out = <<>>
  /\ err = <<>>

(***************************************************************************)
(* SpecCell: _cell_value applied to one cell.                              *)
(***************************************************************************)
InitCell ==
  /\ pc = "call"
  /\ fn = "_cell_value"
  /\ arg \in CellArgs
  /\ ret = <<>>
  /\ zf = NoArchive
  /\ Idle

CallCellValue ==
  /\ pc = "call"
  /\ fn = "_cell_value"
  /\ ret' = <<_cell_value(arg.cell, arg.shared_strings, arg.date_style_indexes)>>
  /\ pc' = "done"
  /\ UNCHANGED <<fn, arg, decodeVars>>

NextCell == CallCellValue

SpecCell == InitCell /\ [][NextCell]_vars

CellDone == pc = "done" /\ fn = "_cell_value"

\* C3: a shared-string cell with a value node resolves to table[i] exactly
\* when its raw value parses as an integer i with 0 <= i < len(table), and
\* to the empty string for every other raw value.
C3_SharedStringIndex ==
  (CellDone /\ arg.cell.t = "s" /\ arg.cell.v # <<>> /\ arg.cell.v[1] # <<>>) =>
    LET i == ParseInt(arg.cell.v[1])
    IN  ret[1] = IF i # <<>> /\ 0 <= i[1] /\ i[1] < Len(arg.shared_strings) THEN arg.shared_strings[i[1] + 1] ELSE <<>>

(***************************************************************************)
(* C6.  The returned text is read back (digits to numbers) and compared    *)
(* with the serial: day difference to 1899-12-30 and seconds of the day.   *)
(***************************************************************************)
Field(t, a, b) == DigitsValue(SubSeq(t, a, b))

IsDateSerialCase ==
  /\ CellDone
  /\ arg.cell.t \notin {"inlineStr", "s"}
  /\ arg.cell.s \in arg.date_style_indexes
  /\ arg.cell.v # <<>>
  /\ ParseFloat(arg.cell.v[1]) # <<>>
  /\ ParseFloat(arg.cell.v[1])[1].whole < Ymd2Ord(9999, 12, 31) - Ymd2Ord(1899, 12, 30)

\* C6: a date-styled cell whose raw value is a serial number resolves to the
\* instant 1899-12-30T00:00:00 plus serial days, written YYYY-MM-DD when the
\* time of day is exactly midnight and YYYY-MM-DD HH:MM:SS otherwise; serial
\* 45000 gives "2023-03-15".
C6_DateSerialFormat ==
  IsDateSerialCase =>
    LET T == ret[1]
        f == ParseFloat(arg.cell.v[1])[1]
        sw == IF f.neg THEN 0 - f.whole ELSE f.whole
        sn == IF f.neg THEN 0 - f.num ELSE f.num
        Y == Field(T, 1, 4)
        M == Field(T, 6, 7)
        D == Field(T, 9, 10)
        j == (Ymd2Ord(Y, M, D) - Ymd2Ord(1899, 12, 30)) - sw
        x == sn * 86400 - j * 86400 * f.den
    IN  /\ Len(T) \in {10, 19}
        /\ AllDigits(SubSeq(T, 1, 4)) /\ AllDigits(SubSeq(T, 6, 7)) /\ AllDigits(SubSeq(T, 9, 10))
        /\ T[5] = "-" /\ T[8] = "-"
        /\ M \in 1..12 /\ D \in 1..DaysInMonth(Y, M)
        /\ j \in {-1, 0}
        /\ 0 <= x /\ x < 86400 * f.den
        /\ (Len(T) = 10) <=> (x = 0)
        /\ Len(T) = 19 =>
             /\ T[11] = " " /\ T[14] = ":" /\ T[17] = ":"
             /\ Field(T, 12, 13) < 24 /\ Field(T, 15, 16) < 60 /\ Field(T, 18, 19) < 60
             /\ Field(T, 12, 13) * 3600 + Field(T, 15, 16) * 60 + Field(T, 18, 19) = x \div f.den
        /\ arg.cell.v[1] = <<"4", "5", "0", "0", "0">> => T = <<"2", "0", "2", "3", "-", "0", "3", "-", "1", "5">>

C6_NonMidnightSerial == IsDateSerialCase /\ Len(ret[1]) = 19 /\ ParseFloat(arg.cell.v[1])[1].whole = 45000

(***************************************************************************)
(* _load_date_styles.  The styles part is [kind, numFmts, cellXfs]: kind   *)
(* "absent" when the archive has no xl/styles.xml; numFmts the optional    *)
(* <numFmts> section, a sequence of [numFmtId, formatCode]; cellXfs the    *)
(* optional <cellXfs> section, a sequence of [numFmtId, xfId].  A missing  *)
(* numFmtId attribute is the number 0, as the code's default "0".          *)
(***************************************************************************)
RECURSIVE CustomNumFmts(_)
CustomNumFmts(entries) ==
  IF entries = <<>> THEN <<>>
  ELSE DictSet(CustomNumFmts(SubSeq(entries, 1, Len(entries) - 1)), entries[Len(entries)].numFmtId, entries[Len(entries)].formatCode)

StyleIndexFromXfId(idx, xf) == xf.xfId

StyleIndex(idx, xf) == idx

IsDateXf(xf, custom_numfmts) ==
  \/ _is_builtin_date_numfmt(xf.numFmtId)
  \/ DictHas(custom_numfmts, xf.numFmtId) /\ _looks_like_date_format(DictGet(custom_numfmts, xf.numFmtId))

RECURSIVE DateStyleLoop(_, _, _)
DateStyleLoop(xfs, custom_numfmts, idx) ==
  IF idx >= Len(xfs) THEN {}
  ELSE (IF IsDateXf(xfs[idx + 1], custom_numfmts) THEN {StyleIndex(idx, xfs[idx + 1])} ELSE {}) \cup DateStyleLoop(xfs, custom_numfmts, idx + 1)

_load_date_styles(styles) ==
  IF styles.kind = "absent" THEN {}
  ELSE LET custom_numfmts == IF styles.numFmts = <<>> THEN <<>> ELSE CustomNumFmts(styles.numFmts[1])
       IN  IF styles.cellXfs = <<>> THEN {} ELSE DateStyleLoop(styles.cellXfs[1], custom_numfmts, 0)

MaxNumFmts == 2

MaxXfs == 2

FormatCodes == {<<"0">>, <<"0", ".", "0", "E", "+", "0">>, <<"Y", "Y">>, <<"#", "S">>, <<"m">>}

CustomIds == {0, 164}

XfNumFmtIds == {0, 13, 14, 22, 23, 47, 48, 164}

NumFmtEntries == [numFmtId : CustomIds, formatCode : FormatCodes]

NumFmtLists == {l \in SeqsUpTo(NumFmtEntries, MaxNumFmts) : \A i, j \in 1..Len(l) : i # j => l[i].numFmtId # l[j].numFmtId}

XfLists == SeqsUpTo([numFmtId : XfNumFmtIds, xfId : {0, 1}], MaxXfs)

AbsentPart == [kind |-> "absent"]

CorruptPart == [kind |-> "corrupt"]

StylesParts ==
  {AbsentPart}
  \cup {[kind |-> "ok", numFmts |-> nf, cellXfs |-> cx] : nf \in {<<>>} \cup {<<l>> : l \in NumFmtLists}, cx \in {<<>>} \cup {<<l>> : l \in XfLists}}

(***************************************************************************)
(* SpecStyles: _load_date_styles applied to one styles part.               *)
(***************************************************************************)
InitStyles ==
  /\ pc = "call"
  /\ fn = "_load_date_styles"
  /\ arg \in StylesParts
  /\ ret = <<>>
  /\ zf = NoArchive
  /\ Idle

CallLoadDateStyles ==
  /\ pc = "call"
  /\ fn = "_load_date_styles"
  /\ ret' = <<_load_date_styles(arg)>>
  /\ pc' = "done"
  /\ UNCHANGED <<fn, arg, decodeVars>>

NextStyles == CallLoadDateStyles

SpecStyles == InitStyles /\ [][NextStyles]_vars

StylesDone == pc = "done" /\ fn = "_load_date_styles"

DateLetters == {"y", "m", "d", "h", "s", "Y", "M", "D", "H", "S"}

HasDateCode(numFmts, id) == \E k \in 1..Len(numFmts) : numFmts[k].numFmtId = id /\ \E c \in 1..Len(numFmts[k].formatCode) : numFmts[k].formatCode[c] \in DateLetters

RECURSIVE Split(_, _)
Split(t, sep) ==
  IF \A i \in 1..Len(t) : t[i] # sep THEN <<t>>
  ELSE LET k == CHOOSE i \in 1..Len(t) : t[i] = sep /\ \A j \in 1..(i - 1) : t[j] # sep
       IN  <<SubSeq(t, 1, k - 1)>> \o Split(SubSeq(t, k + 1, Len(t)), sep)

RECURSIVE JoinWith(_, _)
JoinWith(ts, sep) == IF ts = <<>> THEN <<>> ELSE IF Len(ts) = 1 THEN ts[1] ELSE ts[1] \o <<sep>> \o JoinWith(Tail(ts), sep)

RECURSIVE LeadingSlashes(_)
LeadingSlashes(t) == IF t # <<>> /\ Head(t) = "/" THEN 1 + LeadingSlashes(Tail(t)) ELSE 0

PathRoot(t) == IF LeadingSlashes(t) = 0 THEN <<>> ELSE IF LeadingSlashes(t) = 2 THEN <<"/", "/">> ELSE <<"/">>

PathParts(t) == SelectSeq(Split(t, "/"), LAMBDA seg : seg # <<>> /\ seg # <<".">>)

PurePosixPath(t) == [root |-> PathRoot(t), parts |-> PathParts(t)]

PathJoin(a, b) == IF b.root # <<>> THEN b ELSE [root |-> a.root, parts |-> a.parts \o b.parts]

PathStr(p) == IF p.root = <<>> /\ p.parts = <<>> THEN <<".">> ELSE p.root \o JoinWith(p.parts, "/")

RECURSIVE Replace(_, _, _)
Replace(t, old, new) ==
  IF Len(t) < Len(old) THEN t
  ELSE IF SubSeq(t, 1, Len(old)) = old THEN new \o Replace(SubSeq(t, Len(old) + 1, Len(t)), old, new)
  ELSE <<Head(t)>> \o Replace(Tail(t), old, new)

(***************************************************************************)
(* _sheet_targets.  wb is the parsed workbook part: a sequence of          *)
(* [name, rid] in document order ("" for a missing attribute); rels the    *)
(* parsed relationships part: a sequence of [Id, Target], Target the text  *)
(* of the attribute, <<>> when it is missing.                              *)
(***************************************************************************)
RECURSIVE RelMap(_)
RelMap(rels) ==
  IF rels = <<>> THEN <<>>
  ELSE DictSet(RelMap(SubSeq(rels, 1, Len(rels) - 1)), rels[Len(rels)].Id, rels[Len(rels)].Target)

XlDir == <<"x", "l">>

NormalizeTarget(target) == Replace(PathStr(PathJoin(PurePosixPath(XlDir), PurePosixPath(target))), <<"x", "l", "/", ".", ".", "/">>, <<>>)

RelTarget(rel_map, rid) == IF DictHas(rel_map, rid) THEN DictGet(rel_map, rid) ELSE <<>>

RECURSIVE SheetTargetsLoopBreak(_, _)
SheetTargetsLoopBreak(wbsheets, rel_map) ==
  IF wbsheets = <<>> \/ RelTarget(rel_map, Head(wbsheets).rid) = <<>> THEN <<>>
  ELSE <<<<Head(wbsheets).name, NormalizeTarget(RelTarget(rel_map, Head(wbsheets).rid))>>>> \o SheetTargetsLoopBreak(Tail(wbsheets), rel_map)

RECURSIVE SheetTargetsLoop(_, _)
SheetTargetsLoop(wbsheets, rel_map) ==
  IF wbsheets = <<>> THEN <<>>
  ELSE LET sheet == Head(wbsheets)
           target == RelTarget(rel_map, sheet.rid)
       IN  IF target = <<>> THEN SheetTargetsLoop(Tail(wbsheets), rel_map)
           ELSE <<<<sheet.name, NormalizeTarget(target)>>>> \o SheetTargetsLoop(Tail(wbsheets), rel_map)

_sheet_targets(wb, rels) == SheetTargetsLoop(wb, RelMap(rels))

MaxSegments == 4

SegmentTexts == {<<".", ".">>, <<".">>, <<"x", "l">>, <<"w">>, <<"s">>}

RECURSIVE StaysInPackage(_, _)
StaysInPackage(depth, segs) ==
  IF segs = <<>> THEN TRUE
  ELSE IF Head(segs) = <<".", ".">> THEN depth > 0 /\ StaysInPackage(depth - 1, Tail(segs))
  ELSE IF Head(segs) = <<".">> THEN StaysInPackage(depth, Tail(segs))
  ELSE StaysInPackage(depth + 1, Tail(segs))

SegmentLists == {segs \in SeqsUpTo(SegmentTexts, MaxSegments) : segs # <<>> /\ segs[Len(segs)] = <<"s">>}

TargetTexts ==
  {JoinWith(segs, "/") : segs \in {l \in SegmentLists : StaysInPackage(1, l)}}
  \cup {<<"/">> \o JoinWith(segs, "/") : segs \in {l \in SegmentLists : StaysInPackage(0, l)}}

(***************************************************************************)
(* SpecTargets: _sheet_targets on a workbook of one sheet whose            *)
(* relationship carries the target.                                        *)
(***************************************************************************)
InitTargets ==
  /\ pc = "call"
  /\ fn = "_sheet_targets"
  /\ \E t \in TargetTexts : arg = [wb |-> <<[name |-> "Sheet1", rid |-> "rId1"]>>, rels |-> <<[Id |-> "rId1", Target |-> t]>>]
  /\ ret = <<>>
  /\ zf = NoArchive
  /\ Idle

CallSheetTargets ==
  /\ pc = "call"
  /\ fn = "_sheet_targets"
  /\ ret' = <<_sheet_targets(arg.wb, arg.rels)>>
  /\ pc' = "done"
  /\ UNCHANGED <<fn, arg, decodeVars>>

NextTargets == CallSheetTargets

SpecTargets == InitTargets /\ [][NextTargets]_vars

\* The part a target denotes: the target resolved against the directory of
\* the workbook part (the package root for a package-absolute target), with
\* "." dropped and ".." removing the segment before it.
RECURSIVE ResolveSegments(_, _)
ResolveSegments(stack, segs) ==
  IF segs = <<>> THEN stack
  ELSE IF Head(segs) = <<".", ".">> THEN ResolveSegments(IF stack = <<>> THEN <<>> ELSE SubSeq(stack, 1, Len(stack) - 1), Tail(segs))
  ELSE ResolveSegments(Append(stack, Head(segs)), Tail(segs))

EntryNameOf(target) == JoinWith(ResolveSegments(IF LeadingSlashes(target) > 0 THEN <<>> ELSE <<XlDir>>, PathParts(target)), "/")

\* C10: for every relationship target (relative, with parent or redundant
\* segments, or package-absolute) _sheet_targets produces the target
\* resolved against the directory "xl": no ".." segment, no leading slash,
\* equal to the archive entry name of the part the target denotes.
C10_TargetNormalized ==
  (pc = "done" /\ fn = "_sheet_targets") =>
    /\ Len(ret[1]) = 1
    /\ ret[1][1][2] = EntryNameOf(arg.rels[1].Target)

(***************************************************************************)
(* The sheet assembly of workbook_to_dict (one iteration's body, from the  *)
(* rows of a parsed sheet part to the list of records).  A row is the      *)
(* sequence of its <c> cells in document order.                            *)
(***************************************************************************)
RowValues(row, shared_strings_, date_style_indexes_) == [i \in 1..Len(row) |-> Strip(_cell_value(row[i], shared_strings_, date_style_indexes_))]

EveryValue(values) == values # <<>> /\ \A i \in 1..Len(values) : values[i] # <<>>

AnyValue(values) == \E i \in 1..Len(values) : values[i] # <<>>

NormalizedHeaders(headers) == SelectSeq(headers, LAMBDA h : h # <<>>)

RECURSIVE RowObjLoop(_, _, _)
RowObjLoop(normalized_headers, values, n) ==
  IF n = 0 THEN <<>>
  ELSE DictSet(RowObjLoop(normalized_headers, values, n - 1), normalized_headers[n], IF n - 1 < Len(values) THEN values[n] ELSE <<>>)

RowObj(normalized_headers, values) == RowObjLoop(normalized_headers, values, Len(normalized_headers))

RECURSIVE DataRowsLoop(_, _, _, _)
DataRowsLoop(rows, normalized_headers, shared_strings_, date_style_indexes_) ==
  IF rows = <<>> THEN <<>>
  ELSE LET values == RowValues(Head(rows), shared_strings_, date_style_indexes_)
           rest == DataRowsLoop(Tail(rows), normalized_headers, shared_strings_, date_style_indexes_)
       IN  IF ~AnyValue(values) THEN rest ELSE <<RowObj(normalized_headers, values)>> \o rest

SheetRecords(rows, shared_strings_, date_style_indexes_) ==
  IF rows = <<>> THEN <<>>
  ELSE DataRowsLoop(Tail(rows), NormalizedHeaders(RowValues(rows[1], shared_strings_, date_style_indexes_)), shared_strings_, date_style_indexes_)

MaxCols == 2

MaxDataRows == 2

InlineCell(text) == [t |-> "inlineStr", s |-> 0, is |-> <<<<text>>>>, v |-> <<>>]

HeaderCells == {InlineCell(<<>>), InlineCell(<<"A">>), InlineCell(<<" ", "B", " ">>)}

DataCells == {InlineCell(<<" ">>), InlineCell(<<" ", "x">>)}

SheetRowLists == {<<>>} \cup {<<h>> \o d : h \in SeqsUpTo(HeaderCells, MaxCols), d \in SeqsUpTo(SeqsUpTo(DataCells, MaxCols), MaxDataRows)}

(***************************************************************************)
(* SpecSheet: the sheet assembly applied to the rows of one sheet part.    *)
(***************************************************************************)
InitSheet ==
  /\ pc = "call"
  /\ fn = "sheet_records"
  /\ \E rows \in SheetRowLists : arg = [rows |-> rows, shared_strings |-> <<>>, date_style_indexes |-> {}]
  /\ ret = <<>>
  /\ zf = NoArchive
  /\ Idle

CallSheetRecords ==
  /\ pc = "call"
  /\ fn = "sheet_records"
  /\ ret' = <<SheetRecords(arg.rows, arg.shared_strings, arg.date_style_indexes)>>
  /\ pc' = "done"
  /\ UNCHANGED <<fn, arg, decodeVars>>

NextSheet == CallSheetRecords

SpecSheet == InitSheet /\ [][NextSheet]_vars

SheetDone == pc = "done" /\ fn = "sheet_records"

\* What the claims say of a row: its trimmed cell texts, whether it counts
\* as empty, and the source row of the k-th record.
Trimmed(row) == [i \in 1..Len(row) |-> Strip(_cell_value(row[i], arg.shared_strings, arg.date_style_indexes))]

KeptRows == {r \in 2..Len(arg.rows) : \E i \in 1..Len(arg.rows[r]) : Trimmed(arg.rows[r])[i] # <<>>}

KeptRow(k) == CHOOSE r \in KeptRows : Cardinality({q \in KeptRows : q < r}) = k - 1

\* C1: in every emitted record each retained (non-empty) header maps to the
\* trimmed value at that header's original column position in the data row,
\* or to empty text when the row has fewer cells; empty header cells are
\* dropped as keys without shifting the headers after them.
C1_HeaderKeepsColumn ==
  (SheetDone /\ arg.rows # <<>>) =>
    LET headers == Trimmed(arg.rows[1])
    IN  \A k \in 1..Len(ret[1]) :
          LET values == Trimmed(arg.rows[KeptRow(k)])
          IN  /\ \A j \in 1..Len(ret[1][k]) : ret[1][k][j][1] # <<>>
              /\ \A p \in 1..Len(headers) :
                   (headers[p] # <<>> /\ \A q \in (p + 1)..Len(headers) : headers[q] # headers[p]) =>
                     /\ DictHas(ret[1][k], headers[p])
                     /\ DictGet(ret[1][k], headers[p]) = IF p <= Len(values) THEN values[p] ELSE <<>>

\* C4: the result of a sheet with at least one row holds, in row order, one
\* record for each row after the first whose trimmed values are not all
\* empty; the header row and the all-empty rows contribute no record.
C4_RecordsPerNonEmptyRow ==
  (SheetDone /\ arg.rows # <<>>) =>
    LET headers == Trimmed(arg.rows[1])
    IN  /\ Len(ret[1]) = Cardinality(KeptRows)
        /\ \A k \in 1..Len(ret[1]) :
             /\ \A j \in 1..Len(ret[1][k]) : \E p \in 1..Len(headers) : headers[p] = ret[1][k][j][1]
             /\ (\A p, q \in 1..Len(headers) : headers[p] # <<>> /\ (p # q => headers[p] # headers[q])) =>
                  /\ Len(ret[1][k]) = Len(headers)
                  /\ \A p \in 1..Len(headers) :
                       ret[1][k][p] = <<headers[p], IF p <= Len(Trimmed(arg.rows[KeptRow(k)])) THEN Trimmed(arg.rows[KeptRow(k)])[p] ELSE <<>>>>

C4_SkippedThenEmitted ==
  /\ SheetDone
  /\ Len(arg.rows) = 3
  /\ Trimmed(arg.rows[1]) = <<<<"A">>, <<"B">>>>
  /\ Trimmed(arg.rows[2]) = <<<<>>, <<>>>>
  /\ Trimmed(arg.rows[3]) = <<<<>>, <<"x">>>>
  /\ ret = <<<<<<<<<<"A">>, <<>>>>, <<<<"B">>, <<"x">>>>>>>>>>

(***************************************************************************)
(* The archive.  zf is [valid, ss, styles, wb, rels, parts]: valid says    *)
(* whether zipfile.ZipFile opens it; ss, styles, wb and rels are the parts *)
(* xl/sharedStrings.xml, xl/styles.xml, xl/workbook.xml and                *)
(* xl/_rels/workbook.xml.rels; parts maps the entry name of every other    *)
(* entry to its part.  A part of kind "corrupt" is not well-formed XML.    *)
(* The relationship targets of the model never name one of the four fixed  *)
(* parts.                                                                  *)
(***************************************************************************)
ParseNeverFails(part) == FALSE

ParseFails(part) == part.kind = "corrupt"

SharedItems(part) == IF part.kind = "ok" THEN part.items ELSE <<>>

WbSheets(part) == IF part.kind = "ok" THEN part.sheets ELSE <<>>

Relationships(part) == IF part.kind = "ok" THEN part.rels ELSE <<>>

SheetRows(part) == IF part.kind = "ok" THEN part.rows ELSE <<>>

DateStylesOf(part) == IF part.kind = "ok" THEN _load_date_styles(part) ELSE {}

_load_shared_strings(part) == [i \in 1..Len(SharedItems(part)) |-> _text_from_si(SharedItems(part)[i])]

InNamelist(archive, target) == target \in DOMAIN archive.parts

HandleLeftOpen(h) == h

HandleAfterRaise(h) == "closed"

Raise(type, at) ==
  /\ pc' = "raised"
  /\ err' = <<[type |-> type, at |-> at]>>
  /\ handle' = IF handle = "open" THEN HandleAfterRaise(handle) ELSE handle

(***************************************************************************)
(* workbook_to_dict, one action per statement of its body.                 *)
(***************************************************************************)
Open ==
  /\ pc = "start"
  /\ IF ~zf.valid
     THEN Raise(zf.why, "archive") /\ UNCHANGED <<readlog, shared_strings, date_style_indexes, refs, pos, sheets, out>>
     ELSE /\ handle' = "open"
          /\ pc' = "shared"
          /\ UNCHANGED <<readlog, shared_strings, date_style_indexes, refs, pos, sheets, out, err>>
  /\ UNCHANGED <<fn, arg, ret, zf>>

LoadSharedStrings ==
  /\ pc = "shared"
  /\ IF zf.ss.kind = "absent"
     THEN /\ shared_strings' = <<>>
          /\ pc' = "styles"
          /\ UNCHANGED <<handle, readlog, err>>
     ELSE /\ readlog' = Append(readlog, "xl/sharedStrings.xml")
          /\ IF ParseFails(zf.ss)
             THEN Raise("ParseError", "xl/sharedStrings.xml") /\ UNCHANGED shared_strings
             ELSE /\ shared_strings' = _load_shared_strings(zf.ss)
                  /\ pc' = "styles"
                  /\ UNCHANGED <<handle, err>>
  /\ UNCHANGED <<fn, arg, ret, zf, date_style_indexes, refs, pos, sheets, out>>

LoadDateStyles ==
  /\ pc = "styles"
  /\ IF zf.styles.kind = "absent"
     THEN /\ date_style_indexes' = {}
          /\ pc' = "targets"
          /\ UNCHANGED <<handle, readlog, err>>
     ELSE /\ readlog' = Append(readlog, "xl/styles.xml")
          /\ IF ParseFails(zf.styles)
             THEN Raise("ParseError", "xl/styles.xml") /\ UNCHANGED date_style_indexes
             ELSE /\ date_style_indexes' = DateStylesOf(zf.styles)
                  /\ pc' = "targets"
                  /\ UNCHANGED <<handle, err>>
  /\ UNCHANGED <<fn, arg, ret, zf, shared_strings, refs, pos, sheets, out>>

SheetTargets ==
  /\ pc = "targets"
  /\ IF zf.wb.kind = "absent"
     THEN Raise("KeyError", "xl/workbook.xml") /\ UNCHANGED <<readlog, refs>>
     ELSE IF ParseFails(zf.wb)
     THEN Raise("ParseError", "xl/workbook.xml") /\ readlog' = Append(readlog, "xl/workbook.xml") /\ UNCHANGED refs
     ELSE IF zf.rels.kind = "absent"
     THEN Raise("KeyError", "xl/_rels/workbook.xml.rels") /\ readlog' = Append(readlog, "xl/workbook.xml") /\ UNCHANGED refs
     ELSE IF ParseFails(zf.rels)
     THEN Raise("ParseError", "xl/_rels/workbook.xml.rels") /\ readlog' = readlog \o <<"xl/workbook.xml", "xl/_rels/workbook.xml.rels">> /\ UNCHANGED refs
     ELSE /\ readlog' = readlog \o <<"xl/workbook.xml", "xl/_rels/workbook.xml.rels">>
          /\ refs' = _sheet_targets(WbSheets(zf.wb), Relationships(zf.rels))
          /\ pc' = "sheet"
          /\ UNCHANGED <<handle, err>>
  /\ UNCHANGED <<fn, arg, ret, zf, shared_strings, date_style_indexes, pos, sheets, out>>

DecodeSheet ==
  /\ pc = "sheet"
  /\ pos <= Len(refs)
  /\ LET name == refs[pos][1]
         target == refs[pos][2]
     IN  IF ~InNamelist(zf, target)
         THEN /\ pos' = pos + 1
              /\ UNCHANGED <<pc, handle, readlog, sheets, err>>
         ELSE /\ readlog' = Append(readlog, "sheet part")
              /\ IF ParseFails(zf.parts[target])
                 THEN Raise("ParseError", "sheet part") /\ UNCHANGED <<pos, sheets>>
                 ELSE /\ sheets' = DictSet(sheets, name, SheetRecords(SheetRows(zf.parts[target]), shared_strings, date_style_indexes))
                      /\ pos' = pos + 1
                      /\ UNCHANGED <<pc, handle, err>>
  /\ UNCHANGED <<fn, arg, ret, zf, shared_strings, date_style_indexes, refs, out>>

Return ==
  /\ pc = "sheet"
  /\ pos > Len(refs)
  /\ out' = <<sheets>>
  /\ handle' = "closed"
  /\ pc' = "returned"
  /\ UNCHANGED <<fn, arg, ret, zf, readlog, shared_strings, date_style_indexes, refs, pos, sheets, err>>

(***************************************************************************)
(* Spec: one call of workbook_to_dict on an archive.                       *)
(***************************************************************************)
MaxSheets == 2

SheetNames == {"A", "B"}

RelIds == {"rId1", "rId2", "rId9"}

WbSheetLists == SeqsUpTo([name : SheetNames, rid : RelIds], MaxSheets)

TargetS == <<"w", "/", "s">>

TargetT == <<"w", "/", "t">>

TargetAbsoluteS == <<"/", "x", "l", "/", "w", "/", "s">>

EntryS == <<"x", "l", "/", "w", "/", "s">>

EntryT == <<"x", "l", "/", "w", "/", "t">>

RelLists ==
  { <<>>,
    <<[Id |-> "rId1", Target |-> TargetS]>>,
    <<[Id |-> "rId1", Target |-> TargetS], [Id |-> "rId2", Target |-> TargetT]>>,
    <<[Id |-> "rId1", Target |-> <<>>], [Id |-> "rId2", Target |-> TargetT]>>,
    <<[Id |-> "rId2", Target |-> TargetT], [Id |-> "rId1", Target |-> TargetAbsoluteS]>> }

DemoRows ==
  << <<[t |-> "s", s |-> 0, is |-> <<>>, v |-> <<<<"0">>>>], InlineCell(<<"D", " ">>)>>,
     <<InlineCell(<<"v">>), [t |-> "none", s |-> 1, is |-> <<>>, v |-> <<<<"4", "5", "0", "0", "0">>>>]>>,
     <<InlineCell(<<" ">>)>> >>

SheetParts == {CorruptPart, [kind |-> "ok", rows |-> <<>>], [kind |-> "ok", rows |-> DemoRows]}

PartMaps == {[n \in {EntryS, EntryT} |-> [kind |-> "ok", rows |-> DemoRows]]} \cup UNION {[names -> SheetParts] : names \in {{}, {EntryS}, {EntryT}}}

SharedStringParts == {AbsentPart, CorruptPart, [kind |-> "ok", items |-> <<<<<<"N">>, <<>>>>, <<<<"q">>>>>>]}

DemoStyles == [kind |-> "ok", numFmts |-> <<>>, cellXfs |-> <<<<[numFmtId |-> 0, xfId |-> 0], [numFmtId |-> 14, xfId |-> 0]>>>>]

WorkbookParts == {AbsentPart, CorruptPart} \cup {[kind |-> "ok", sheets |-> l] : l \in WbSheetLists}

RelsParts == {AbsentPart, CorruptPart} \cup {[kind |-> "ok", rels |-> l] : l \in RelLists}

Archives ==
  InvalidArchives
  \cup [valid : {TRUE}, ss : SharedStringParts, styles : {AbsentPart, CorruptPart, DemoStyles}, wb : WorkbookParts, rels : RelsParts, parts : PartMaps]

Init ==
  /\ pc = "start"
  /\ fn = "workbook_to_dict"
  /\ arg = <<>>
  /\ ret = <<>>
  /\ zf \in Archives
  /\ Idle

Next == Open \/ LoadSharedStrings \/ LoadDateStyles \/ SheetTargets \/ DecodeSheet \/ Return

Spec == Init /\ [][Next]_vars

Terminal == pc \in {"returned", "raised"}

WellFormedManifest == zf.valid /\ zf.wb.kind = "ok" /\ zf.rels.kind = "ok"

TargetsResolved == pc \in {"sheet", "returned"} \/ (pc = "raised" /\ err[1].at = "sheet part")

RefNames == [i \in 1..Len(refs) |-> refs[i][1]]

\* C2: a declared sheet whose relationship resolves to a path that is not
\* an entry of the archive appears in the result with an empty record list,
\* and the decode does not fail on it.
C2_MissingPartGivesEmptyList ==
  (pc = "returned") =>
    \A i \in 1..Len(refs) :
      ~InNamelist(zf, refs[i][2]) =>
        /\ DictHas(out[1], refs[i][1])
        /\ (\A j \in 1..Len(refs) : refs[j][1] = refs[i][1] => j = i) => DictGet(out[1], refs[i][1]) = <<>>

(***************************************************************************)
(* C5.                                                                     *)
(***************************************************************************)
HasRelationship(sheet) == \E k \in 1..Len(zf.rels.rels) : zf.rels.rels[k].Id = sheet.rid

HasTarget(sheet) == \E k \in 1..Len(zf.rels.rels) : zf.rels.rels[k].Id = sheet.rid /\ zf.rels.rels[k].Target # <<>>

NamesOf(sheetlist) == [i \in 1..Len(sheetlist) |-> sheetlist[i].name]

Unmatched(i) == ~HasRelationship(zf.wb.sheets[i])

ArchiveError == {"BadZipFile", "FileNotFoundError"}

ManifestError == {"ParseError", "KeyError"}

C8_HandleReleased ==
  /\ [](Terminal => handle # "open")
  /\ [][readlog' # readlog => handle = "open"]_vars

C8_ClosedAfterSheetFailure ==
  /\ pc = "raised"
  /\ err[1].at = "sheet part"
  /\ Len(readlog) >= 4
  /\ handle = "closed"

====
